---- MODULE Spec2Model ----
(***************************************************************************)
(* Model of src/ikitsuke.py: a Streamlit script that keeps location-bound  *)
(* "memory notes" in data/notes.json and users in data/users.json.         *)
(*                                                                         *)
(* A Streamlit script is executed top to bottom once per "run"; each       *)
(* browser session owns a session_state and runs in its own thread, so the *)
(* runs of two sessions interleave between a run's load of notes.json      *)
(* (line 176) and its save.  A run is modelled as RunStart (lines 108-182: *)
(* defaults, mode-switch flag, load, geolocation sample) followed by       *)
(* exactly one continuation: the handler of the widget event that caused   *)
(* the run, or a plain render.                                             *)
(*                                                                         *)
(* Abstractions: a coordinate pair (lat, lng) is one point `pos` on a      *)
(* meridian measured in km, so great_circle(a, b).km is |a - b|; zoom and  *)
(* the map widget's centre feedback are left out (no guard reads them      *)
(* beyond "center is None"); a model reply is a sequence of chunks (text,  *)
(* whitespace, or a substring matching the recommended_note_id pattern).   *)
(***************************************************************************)
EXTENDS Integers, Sequences, FiniteSets, TLC

\* ------------------------------------------------------------------ bounds
MaxNotes == 2
MaxEntries == 2
MaxChat == 6

\* --------------------------------------------------------------- constants
RadiusKm == 10

NoneVal == "None"
Sessions == {"s1", "s2"}
UserIds == {"u1", "u2"}
Names == {"Ann", "Bob"}
Passwords == {"pw"}
\* clock readings of datetime.now().timestamp() (wall clock, not monotonic)
Clock == {"1", "2"}
\* points the geolocation component reports, and points the map is clicked at
UserPlaces == {20, 21}
ClickPlaces == {30, 31}

NoteMenu == "note_ops"
SearchMenu == "search"
AccountMenu == "account"
Menus == {NoteMenu, SearchMenu, AccountMenu}
PlaceMode == "place_mode"
WriteMode == "write_mode"
Modes == {PlaceMode, WriteMode}

\* ---------------------------------------------------------------- helpers
hash_password(p) == <<"sha256", p>>

\* no coordinate: None, or a reading whose latitude is falsy (line 181)
NoLocation == 0
NoNote == [id |-> NoneVal, title |-> NoneVal, hashtags |-> <<>>, pos |-> NoLocation,
           creator_id |-> NoneVal, creator_name |-> NoneVal, entries |-> <<>>]

Abs(x) == IF x < 0 THEN -x ELSE x
great_circle(a, b) == Abs(a - b)

Ids(notes) == {notes[i].id : i \in 1..Len(notes)}

FindIndex(notes, id) ==
    IF id \in Ids(notes)
    THEN CHOOSE i \in 1..Len(notes) :
            notes[i].id = id /\ \A j \in 1..(i - 1) : notes[j].id # id
    ELSE 0

\* next((n for n in all_notes if n['id'] == id), None)
FindNote(notes, id) ==
    IF id \in Ids(notes) THEN notes[FindIndex(notes, id)] ELSE NoNote

\* strings are sequences of characters; " " stands for any whitespace and
\* "A" and "a" for letters that differ in case only
Chars == {" ", "#", "A", "a"}

\* ord()
CharRank(c) == IF c = " " THEN 32 ELSE IF c = "#" THEN 35 ELSE IF c = "A" THEN 65 ELSE 97

\* the order of Python strings (x < y)
RECURSIVE StrLess(_, _)
StrLess(x, y) ==
    IF y = <<>> THEN FALSE
    ELSE IF x = <<>> THEN TRUE
    ELSE IF Head(x) = Head(y) THEN StrLess(Tail(x), Tail(y))
    ELSE CharRank(Head(x)) < CharRank(Head(y))

\* str.split(): the maximal runs of non-whitespace characters
RECURSIVE split(_)
split(str) ==
    IF str = <<>> THEN <<>>
    ELSE IF Head(str) = " " THEN split(Tail(str))
    ELSE LET stops == {i \in 1..Len(str) : str[i] = " "}
             n == IF stops = {} THEN Len(str)
                  ELSE (CHOOSE i \in stops : \A j \in stops : i <= j) - 1
         IN <<SubSeq(str, 1, n)>> \o split(SubSeq(str, n + 1, Len(str)))

\* tag.lstrip('#')
RECURSIVE lstrip(_)
lstrip(tag) ==
    IF tag # <<>> /\ Head(tag) = "#" THEN lstrip(Tail(tag)) ELSE tag

\* line 52 without the lstrip
normalize_prepend(tag) == <<"#">> \o tag

\* line 52: f"#{tag.lstrip('#')}"
normalize(tag) == <<"#">> \o lstrip(tag)

\* line 53: sorted(list(tags))
RECURSIVE SortTags(_)
SortTags(S) ==
    IF S = {} THEN <<>>
    ELSE LET m == CHOOSE x \in S : \A y \in S : x = y \/ StrLess(x, y)
         IN <<m>> \o SortTags(S \ {m})

\* lines 49-53
parse_hashtags(tag_string) ==
    IF tag_string = <<>> THEN <<>>
    ELSE LET toks == split(tag_string)
         IN SortTags({normalize(toks[i]) : i \in 1..Len(toks)})

\* ' '.join(tags)
RECURSIVE join(_)
join(tags) ==
    IF tags = <<>> THEN <<>>
    ELSE IF Len(tags) = 1 THEN Head(tags)
    ELSE Head(tags) \o <<" ">> \o join(Tail(tags))

\* Python's None where a user record, a note or a coordinate is expected
NoUser == [id |-> NoneVal, name |-> NoneVal, password_hash |-> <<>>]
\* an empty users.json: load_data(USERS_FILE, is_dict=True) == {}
NoUsers == [u \in UserIds |-> NoUser]

\* both users have registered (lines 153-158)
Registered ==
    [u \in UserIds |->
        [id |-> u, name |-> IF u = "u1" THEN "Ann" ELSE "Bob",
         password_hash |-> hash_password("pw")]]

\* no model reply in flight
NoReply == [kind |-> "none", body |-> <<>>]

\* search_results is None (line 112)
NoSearch == [some |-> FALSE, found |-> <<>>]

\* no helper function is being applied on its own
NoCall == [fn |-> "none", arg |-> <<>>, out |-> <<>>, again |-> <<>>, phase |-> 0]

\* -------------------------------------------------------------- variables
VARIABLES
    usersFile,              \* data/users.json: user id -> user record
    notesFile,              \* data/notes.json: sequence of notes
    current_user,           \* session_state, one value per session
    center,
    mode,
    selected_note_id,
    user_location,
    initial_load,
    initial_notes_generated,
    clicked_location,
    main_menu,
    chat_messages,
    recommended_note_id,
    chat_started,
    switch_to_note_mode,
    search_results,         \* None, or the notes the last hashtag search found
    nearby_notes,
    pc,                     \* "idle" | "run" | "model" (model call in flight)
    all_notes,              \* the run's local copy of notes.json
    users_data,             \* the run's local copy of users.json
    msg,                    \* the model's reply being processed
    panel,                  \* what the last completed run rendered in col2
    notice,                 \* the message the last handler showed
    call                    \* a helper function applied to an input on its own

persisted == <<usersFile, notesFile>>
session == <<current_user, center, mode, selected_note_id, user_location,
             initial_load, initial_notes_generated, clicked_location,
             main_menu, chat_messages, recommended_note_id, chat_started,
             switch_to_note_mode, search_results, nearby_notes>>
local == <<pc, all_notes, users_data, msg, panel, notice>>
vars == <<persisted, session, local, call>>

\* lines 108-120: the defaults of a session state, over given files; a
\* session given a user has just logged in (lines 136-138)
InitAll(users, notes, user_of, applied) ==
    /\ usersFile = users
    /\ notesFile = notes
    /\ current_user = user_of
    /\ initial_load = [s \in Sessions |-> user_of[s] # NoUser]
    /\ panel = [s \in Sessions |-> IF user_of[s] # NoUser THEN "pending" ELSE "auth"]
    /\ center = [s \in Sessions |-> NoneVal]
    /\ mode = [s \in Sessions |-> PlaceMode]
    /\ selected_note_id = [s \in Sessions |-> NoneVal]
    /\ user_location = [s \in Sessions |-> NoLocation]
    /\ initial_notes_generated = [s \in Sessions |-> FALSE]
    /\ clicked_location = [s \in Sessions |-> NoLocation]
    /\ main_menu = [s \in Sessions |-> NoteMenu]
    /\ chat_messages = [s \in Sessions |-> <<>>]
    /\ recommended_note_id = [s \in Sessions |-> NoneVal]
    /\ chat_started = [s \in Sessions |-> FALSE]
    /\ switch_to_note_mode = [s \in Sessions |-> FALSE]
    /\ search_results = [s \in Sessions |-> NoSearch]
    /\ nearby_notes = [s \in Sessions |-> <<>>]
    /\ call = applied
    /\ pc = [s \in Sessions |-> "idle"]
    /\ all_notes = [s \in Sessions |-> <<>>]
    /\ users_data = [s \in Sessions |-> NoUsers]
    /\ msg = [s \in Sessions |-> NoReply]
    /\ notice = [s \in Sessions |-> "none"]

InitFull(notes, user_of, applied) == InitAll(Registered, notes, user_of, applied)

InitWith(notes, user_of) == InitFull(notes, user_of, NoCall)

\* nobody is logged in and notes.json is empty
Init == InitWith(<<>>, [s \in Sessions |-> NoUser])

\* ------------------------------------------------------------ the gates
\* the view gate with an exclusive boundary (< where line 483 has <=)
ViewGateStrict(loc, rec, note) ==
    IF note.id = rec \/ (loc # NoLocation /\ great_circle(loc, note.pos) < RadiusKm)
    THEN "viewable"
    ELSE IF loc = NoLocation THEN "location_unavailable"
    ELSE "too_far"

\* lines 477-491: the view gate of a note found in the loaded store
ViewGate(loc, rec, note) ==
    LET is_recommended == note.id = rec
        is_close_enough == loc # NoLocation /\ great_circle(loc, note.pos) <= RadiusKm
    IN IF is_recommended \/ is_close_enough THEN "viewable"
       ELSE IF loc = NoLocation THEN "location_unavailable"
       ELSE "too_far"

\* lines 470-585: what col2 shows
Col2(menu, md, sel, rec, loc, notes) ==
    IF menu = NoteMenu /\ md = WriteMode /\ sel # NoneVal
    THEN IF FindNote(notes, sel) # NoNote
         THEN ViewGate(loc, rec, FindNote(notes, sel))
         ELSE "blank"
    ELSE IF menu = NoteMenu /\ md = WriteMode THEN "select_prompt"
    ELSE IF menu # NoteMenu THEN "menu_prompt"
    ELSE "blank"

\* the submit gate with an exclusive boundary (< where line 533 has <=)
PostGateStrict(loc, note) ==
    IF loc # NoLocation
    THEN IF great_circle(loc, note.pos) < RadiusKm THEN "allowed" ELSE "post_too_far"
    ELSE "post_no_location"

\* lines 528-538: the gate of the entry form's submit handler
PostGate(loc, note) ==
    IF loc # NoLocation
    THEN IF great_circle(loc, note.pos) <= RadiusKm THEN "allowed" ELSE "post_too_far"
    ELSE "post_no_location"

\* a save that keeps the notes of the file that the written collection lacks
save_data_merged(file, data) ==
    data \o SelectSeq(file, LAMBDA n : \A i \in 1..Len(data) : data[i].id # n.id)

\* lines 33-35: the file is opened with "w" and the whole collection dumped
save_data(file, data) == data

\* the delete expander offered without the creator check of line 566
CanDeleteAnyone(user, note) == TRUE

\* lines 566-571: the delete expander is offered to the creator only
CanDelete(user, note) == note.creator_id = user.id

\* ------------------------------------------------------- run bookkeeping
LoggedIn(s) == current_user[s] # NoUser

\* line 184
SeedCond(s) ==
    /\ all_notes[s] = <<>>
    /\ user_location[s] # NoLocation
    /\ ~initial_notes_generated[s]

\* line 194 without its check of the user location
InitLoadCondNoLocation(s) == initial_load[s]

\* line 194
InitLoadCond(s) == initial_load[s] /\ user_location[s] # NoLocation

\* the run has reached the main page (line 202)
MainUI(s) ==
    /\ pc[s] = "run"
    /\ LoggedIn(s)
    /\ ~SeedCond(s)
    /\ ~InitLoadCond(s)
    /\ center[s] # NoneVal

\* the run ends: its local variables die
EndRun(s) ==
    /\ pc' = [pc EXCEPT ![s] = "idle"]
    /\ all_notes' = [all_notes EXCEPT ![s] = <<>>]
    /\ users_data' = [users_data EXCEPT ![s] = NoUsers]
    /\ msg' = [msg EXCEPT ![s] = NoReply]

\* st.rerun(): the run stops before col2 is rendered
Rerun(s, note) ==
    /\ EndRun(s)
    /\ panel' = [panel EXCEPT ![s] = "pending"]
    /\ notice' = [notice EXCEPT ![s] = note]

\* the run reaches its last line: col2 is rendered from the session state
Complete(s, note) ==
    /\ EndRun(s)
    /\ panel' = [panel EXCEPT ![s] =
                    Col2(main_menu'[s], mode'[s], selected_note_id'[s],
                         recommended_note_id'[s], user_location'[s], all_notes[s])]
    /\ notice' = [notice EXCEPT ![s] = note]

\* ------------------------------------------------------------ run start
\* the proximity filter with an exclusive boundary (< where line 205 has <=)
NearbyNotesStrict(notes, loc) ==
    SelectSeq(notes, LAMBDA note : great_circle(loc, note.pos) < RadiusKm)

\* line 205: the notes within 10 km of the user
NearbyNotes(notes, loc) ==
    SelectSeq(notes, LAMBDA note : great_circle(loc, note.pos) <= RadiusKm)

\* the start of a run without the block of lines 168-171
RunStartWithoutSwitch(s, location) ==
    /\ UNCHANGED <<search_results, call>>
    /\ pc[s] = "idle"
    /\ pc' = [pc EXCEPT ![s] = "run"]
    /\ notice' = [notice EXCEPT ![s] = "none"]
    /\ IF ~LoggedIn(s)
       THEN /\ users_data' = [users_data EXCEPT ![s] = usersFile]
            /\ UNCHANGED <<all_notes, main_menu, mode, switch_to_note_mode, user_location>>
       ELSE /\ all_notes' = [all_notes EXCEPT ![s] = notesFile]
            /\ UNCHANGED <<main_menu, switch_to_note_mode>>
            /\ \E m \in (IF main_menu[s] # NoteMenu THEN {mode[s], PlaceMode}
                         ELSE {mode[s]}) :
                  mode' = [mode EXCEPT ![s] = m]
            /\ user_location' = IF location # NoLocation
                                 THEN [user_location EXCEPT ![s] = location]
                                 ELSE user_location
            /\ UNCHANGED users_data
    /\ UNCHANGED <<persisted, current_user, center, selected_note_id, initial_load,
                   initial_notes_generated, clicked_location, chat_messages,
                   recommended_note_id, chat_started, msg, panel>>
    /\ nearby_notes' =
          IF /\ MainUI(s)'
             /\ user_location'[s] # NoLocation
             /\ search_results[s].found = <<>>
          THEN [nearby_notes EXCEPT ![s] = NearbyNotes(all_notes'[s], user_location'[s])]
          ELSE nearby_notes

\* lines 108-120 (defaults), 166-171 (mode-switch flag), 125 / 176 (load),
\* 180-182 (geolocation sample) and, when the run goes on to the main page,
\* the proximity filter of lines 203-205, which nothing precedes there.  A
\* widget-keyed value ("mode") whose radio was not rendered may have been
\* dropped by Streamlit, and line 119 then restores its default: either
\* outcome is allowed.
RunStart(s, location) ==
    /\ UNCHANGED <<search_results, call>>
    /\ pc[s] = "idle"
    /\ pc' = [pc EXCEPT ![s] = "run"]
    /\ notice' = [notice EXCEPT ![s] = "none"]
    /\ IF ~LoggedIn(s)
       THEN /\ users_data' = [users_data EXCEPT ![s] = usersFile]
            /\ UNCHANGED <<all_notes, main_menu, mode, switch_to_note_mode, user_location>>
       ELSE /\ all_notes' = [all_notes EXCEPT ![s] = notesFile]
            /\ IF switch_to_note_mode[s]
               THEN /\ main_menu' = [main_menu EXCEPT ![s] = NoteMenu]
                    /\ mode' = [mode EXCEPT ![s] = WriteMode]
               ELSE /\ UNCHANGED main_menu
                    /\ \E m \in (IF main_menu[s] # NoteMenu THEN {mode[s], PlaceMode}
                                 ELSE {mode[s]}) :
                          mode' = [mode EXCEPT ![s] = m]
            /\ switch_to_note_mode' = [switch_to_note_mode EXCEPT ![s] = FALSE]
            /\ user_location' = IF location # NoLocation
                                 THEN [user_location EXCEPT ![s] = location]
                                 ELSE user_location
            /\ UNCHANGED users_data
    /\ UNCHANGED <<persisted, current_user, center, selected_note_id, initial_load,
                   initial_notes_generated, clicked_location, chat_messages,
                   recommended_note_id, chat_started, msg, panel>>
    /\ nearby_notes' =
          IF /\ MainUI(s)'
             /\ user_location'[s] # NoLocation
             /\ search_results[s].found = <<>>
          THEN [nearby_notes EXCEPT ![s] = NearbyNotes(all_notes'[s], user_location'[s])]
          ELSE nearby_notes

\* ------------------------------------------------------------ auth page
\* lines 129-140
Login(s, login_id, login_password) ==
    /\ UNCHANGED <<search_results, nearby_notes, call>>
    /\ pc[s] = "run" /\ ~LoggedIn(s)
    /\ LET user == users_data[s][login_id]
       IN IF user # NoUser /\ user.password_hash = hash_password(login_password)
          THEN /\ current_user' = [current_user EXCEPT ![s] = user]
               /\ initial_load' = [initial_load EXCEPT ![s] = TRUE]
               /\ Rerun(s, "none")
          ELSE /\ EndRun(s)
               /\ panel' = [panel EXCEPT ![s] = "auth"]
               /\ notice' = [notice EXCEPT ![s] = "login_failed"]
               /\ UNCHANGED <<current_user, initial_load>>
    /\ UNCHANGED <<persisted, center, mode, selected_note_id, user_location,
                   initial_notes_generated, clicked_location, main_menu,
                   chat_messages, recommended_note_id, chat_started,
                   switch_to_note_mode>>

\* lines 142-162
Register(s, register_id, register_name, register_password) ==
    /\ UNCHANGED <<search_results, nearby_notes, call>>
    /\ pc[s] = "run" /\ ~LoggedIn(s)
    /\ IF register_id = "" \/ register_name = "" \/ register_password = ""
       THEN /\ EndRun(s)
            /\ panel' = [panel EXCEPT ![s] = "auth"]
            /\ notice' = [notice EXCEPT ![s] = "fill_all_fields"]
            /\ UNCHANGED <<usersFile, current_user, initial_load>>
       ELSE IF users_data[s][register_id] # NoUser
       THEN /\ EndRun(s)
            /\ panel' = [panel EXCEPT ![s] = "auth"]
            /\ notice' = [notice EXCEPT ![s] = "id_in_use"]
            /\ UNCHANGED <<usersFile, current_user, initial_load>>
       ELSE LET new_user == [id |-> register_id, name |-> register_name,
                             password_hash |-> hash_password(register_password)]
            IN /\ usersFile' = [users_data[s] EXCEPT ![register_id] = new_user]
               /\ current_user' = [current_user EXCEPT ![s] = new_user]
               /\ initial_load' = [initial_load EXCEPT ![s] = TRUE]
               /\ Rerun(s, "registered")
    /\ UNCHANGED <<notesFile, center, mode, selected_note_id, user_location,
                   initial_notes_generated, clicked_location, main_menu,
                   chat_messages, recommended_note_id, chat_started,
                   switch_to_note_mode>>

\* the auth page is rendered and no form is submitted
AuthRender(s) ==
    /\ UNCHANGED call
    /\ pc[s] = "run" /\ ~LoggedIn(s)
    /\ EndRun(s)
    /\ panel' = [panel EXCEPT ![s] = "auth"]
    /\ UNCHANGED <<persisted, session, notice>>

\* ------------------------------------------------------------- seeding
\* what gmaps.places_nearby returned over the five place types, in order;
\* a place whose place_id is "" has none
PlaceA == [place_id |-> "gA", name |-> "A", pos |-> 30, ptype |-> <<"a">>]
PlaceB == [place_id |-> "gB", name |-> "B", pos |-> 31, ptype |-> <<"A">>]
PlaceAnon == [place_id |-> "", name |-> "X", pos |-> 30, ptype |-> <<"a">>]
SeedResponses == {<<>>, <<PlaceA>>, <<PlaceA, PlaceAnon, PlaceB, PlaceA>>}

\* lines 87-94
NoteOfPlace(place) ==
    [id |-> place.place_id, title |-> place.name,
     hashtags |-> <<<<"#">> \o place.ptype>>, pos |-> place.pos,
     creator_id |-> "system", creator_name |-> "auto",
     entries |-> <<[author_name |-> "system", type |-> "text", text |-> "memo",
                    image |-> NoneVal,
                    hashtags |-> <<<<"#">> \o place.ptype>>]>>]

\* lines 81-96: one note per place id, first occurrence kept
RECURSIVE InitialNotes(_, _)
InitialNotes(resp, processed_place_ids) ==
    IF resp = <<>> THEN <<>>
    ELSE LET place == Head(resp)
         IN IF place.place_id # "" /\ place.place_id \notin processed_place_ids
            THEN <<NoteOfPlace(place)>>
                 \o InitialNotes(Tail(resp), processed_place_ids \cup {place.place_id})
            ELSE InitialNotes(Tail(resp), processed_place_ids)

\* lines 184-187 with generate_initial_notes (73-105); ok = FALSE is an
\* exception of the places API, caught at line 104
Seed(s, resp, ok) ==
    /\ UNCHANGED <<search_results, nearby_notes, call>>
    /\ pc[s] = "run" /\ LoggedIn(s) /\ SeedCond(s)
    /\ LET initial_notes == InitialNotes(resp, {})
       IN notesFile' = IF ok /\ initial_notes # <<>> THEN initial_notes ELSE notesFile
    /\ initial_notes_generated' = [initial_notes_generated EXCEPT ![s] = TRUE]
    /\ Rerun(s, IF ~ok THEN "maps_error"
                ELSE IF InitialNotes(resp, {}) # <<>> THEN "seeded" ELSE "nothing_to_seed")
    /\ UNCHANGED <<usersFile, current_user, center, mode, selected_note_id,
                   user_location, initial_load, clicked_location, main_menu,
                   chat_messages, recommended_note_id, chat_started,
                   switch_to_note_mode>>

\* lines 194-198
InitialLoad(s) ==
    /\ UNCHANGED <<search_results, nearby_notes, call>>
    /\ pc[s] = "run" /\ LoggedIn(s) /\ ~SeedCond(s) /\ InitLoadCond(s)
    /\ center' = [center EXCEPT ![s] = "coords"]
    /\ initial_load' = [initial_load EXCEPT ![s] = FALSE]
    /\ Rerun(s, "none")
    /\ UNCHANGED <<persisted, current_user, mode, selected_note_id, user_location,
                   initial_notes_generated, clicked_location, main_menu,
                   chat_messages, recommended_note_id, chat_started,
                   switch_to_note_mode>>

\* lines 200-201: no centre yet, the page only says the position is being
\* acquired
Locating(s) ==
    /\ UNCHANGED call
    /\ pc[s] = "run" /\ LoggedIn(s) /\ ~SeedCond(s) /\ ~InitLoadCond(s)
    /\ center[s] = NoneVal
    /\ EndRun(s)
    /\ panel' = [panel EXCEPT ![s] = "locating"]
    /\ UNCHANGED <<persisted, session, notice>>

\* ----------------------------------------------------------- main page
\* a run that no widget event caused (auto refresh, or the run after a rerun)
Render(s) ==
    /\ UNCHANGED call
    /\ MainUI(s)
    /\ UNCHANGED <<persisted, session>>
    /\ Complete(s, "none")

\* line 209: the main-menu radio
SetMenu(s, m) ==
    /\ UNCHANGED <<search_results, nearby_notes, call>>
    /\ MainUI(s)
    /\ m # main_menu[s]
    /\ main_menu' = [main_menu EXCEPT ![s] = m]
    /\ UNCHANGED <<persisted, current_user, center, mode, selected_note_id,
                   user_location, initial_load, initial_notes_generated,
                   clicked_location, chat_messages, recommended_note_id,
                   chat_started, switch_to_note_mode>>
    /\ Complete(s, "none")

\* line 216: the mode radio
SetMode(s, m) ==
    /\ UNCHANGED <<search_results, nearby_notes, call>>
    /\ MainUI(s)
    /\ main_menu[s] = NoteMenu
    /\ m # mode[s]
    /\ mode' = [mode EXCEPT ![s] = m]
    /\ UNCHANGED <<persisted, current_user, center, selected_note_id,
                   user_location, initial_load, initial_notes_generated,
                   clicked_location, main_menu, chat_messages,
                   recommended_note_id, chat_started, switch_to_note_mode>>
    /\ Complete(s, "none")

\* lines 459-462: a click on the map
MapClick(s, last_clicked) ==
    /\ UNCHANGED <<search_results, nearby_notes, call>>
    /\ MainUI(s)
    /\ UNCHANGED <<persisted, current_user, center, mode, selected_note_id,
                   user_location, initial_load, initial_notes_generated,
                   main_menu, chat_messages, recommended_note_id, chat_started,
                   switch_to_note_mode>>
    /\ IF mode[s] = PlaceMode /\ clicked_location[s] # last_clicked
       THEN /\ clicked_location' = [clicked_location EXCEPT ![s] = last_clicked]
            /\ Rerun(s, "none")
       ELSE /\ UNCHANGED clicked_location
            /\ Complete(s, "none")

\* lines 226-246: the note placement form
CreateNote(s, note_title, note_hashtags, now) ==
    /\ UNCHANGED <<search_results, nearby_notes, call>>
    /\ MainUI(s)
    /\ main_menu[s] = NoteMenu /\ mode[s] = PlaceMode
    /\ clicked_location[s] # NoLocation
    /\ UNCHANGED <<usersFile, current_user, center, mode, selected_note_id,
                   user_location, initial_load, initial_notes_generated,
                   main_menu, chat_messages, recommended_note_id, chat_started,
                   switch_to_note_mode>>
    /\ IF note_title # ""
       THEN /\ Len(all_notes[s]) < MaxNotes
            /\ LET new_note ==
                      [id |-> now, title |-> note_title,
                       hashtags |-> parse_hashtags(note_hashtags),
                       pos |-> clicked_location[s],
                       creator_id |-> current_user[s].id,
                       creator_name |-> current_user[s].name,
                       entries |-> <<>>]
               IN notesFile' = save_data(notesFile, Append(all_notes[s], new_note))
            /\ clicked_location' = [clicked_location EXCEPT ![s] = NoLocation]
            /\ Rerun(s, "created")
       ELSE /\ UNCHANGED <<notesFile, clicked_location>>
            /\ Complete(s, "title_missing")

\* lines 247-249
CancelPlacement(s) ==
    /\ UNCHANGED <<search_results, nearby_notes, call>>
    /\ MainUI(s)
    /\ main_menu[s] = NoteMenu /\ mode[s] = PlaceMode
    /\ clicked_location[s] # NoLocation
    /\ clicked_location' = [clicked_location EXCEPT ![s] = NoLocation]
    /\ Rerun(s, "none")
    /\ UNCHANGED <<persisted, current_user, center, mode, selected_note_id,
                   user_location, initial_load, initial_notes_generated,
                   main_menu, chat_messages, recommended_note_id, chat_started,
                   switch_to_note_mode>>

\* lines 189-192
notes_to_display(s) ==
    IF search_results[s].some THEN search_results[s].found ELSE all_notes[s]

\* the selectbox handler without the reset of line 268
SelectNoteKeepingRecommendation(s, selected_id) ==
    /\ UNCHANGED <<search_results, nearby_notes, call>>
    /\ MainUI(s)
    /\ main_menu[s] = NoteMenu /\ mode[s] = WriteMode
    /\ selected_id \in Ids(notes_to_display(s))
    /\ selected_id # selected_note_id[s]
    /\ selected_note_id' = [selected_note_id EXCEPT ![s] = selected_id]
    /\ center' = IF FindNote(all_notes[s], selected_id) # NoNote
                 THEN [center EXCEPT ![s] = "coords"] ELSE center
    /\ Rerun(s, "none")
    /\ UNCHANGED <<persisted, current_user, mode, user_location, initial_load,
                   initial_notes_generated, clicked_location, main_menu,
                   chat_messages, chat_started, switch_to_note_mode,
                   recommended_note_id>>

\* lines 253-273: the note selectbox
SelectNote(s, selected_id) ==
    /\ UNCHANGED <<search_results, nearby_notes, call>>
    /\ MainUI(s)
    /\ main_menu[s] = NoteMenu /\ mode[s] = WriteMode
    /\ selected_id \in Ids(notes_to_display(s))
    /\ selected_id # selected_note_id[s]
    /\ selected_note_id' = [selected_note_id EXCEPT ![s] = selected_id]
    /\ recommended_note_id' = [recommended_note_id EXCEPT ![s] = NoneVal]
    /\ center' = IF FindNote(all_notes[s], selected_id) # NoNote
                 THEN [center EXCEPT ![s] = "coords"] ELSE center
    /\ Rerun(s, "none")
    /\ UNCHANGED <<persisted, current_user, mode, user_location, initial_load,
                   initial_notes_generated, clicked_location, main_menu,
                   chat_messages, chat_started, switch_to_note_mode>>

\* the run shows the selected note's body and with it the entry form
Viewable(s) ==
    /\ MainUI(s)
    /\ Col2(main_menu[s], mode[s], selected_note_id[s], recommended_note_id[s],
            user_location[s], all_notes[s]) = "viewable"

\* an entry that does not carry the name of line 546
NewEntryUnsigned(author_name, text_input, uploaded_file, entry_hashtags) ==
    [author_name |-> "system",
     type |-> IF text_input # "" /\ uploaded_file # NoneVal THEN "combined"
              ELSE IF text_input # "" THEN "text" ELSE "image",
     text |-> IF text_input # "" THEN text_input ELSE NoneVal,
     image |-> uploaded_file,
     hashtags |-> parse_hashtags(entry_hashtags)]

\* lines 544-558
NewEntry(author_name, text_input, uploaded_file, entry_hashtags) ==
    [author_name |-> author_name,
     type |-> IF text_input # "" /\ uploaded_file # NoneVal THEN "combined"
              ELSE IF text_input # "" THEN "text" ELSE "image",
     text |-> IF text_input # "" THEN text_input ELSE NoneVal,
     image |-> uploaded_file,
     hashtags |-> parse_hashtags(entry_hashtags)]

\* line 561: selected_note.setdefault("entries", []).append(new_entry); a
\* plausible slip replaces the list instead
WithEntryReplaced(notes, i, new_entry) ==
    [notes EXCEPT ![i].entries = <<new_entry>>]

WithEntry(notes, i, new_entry) ==
    [notes EXCEPT ![i].entries = Append(@, new_entry)]

\* lines 521-564: the entry form, offered in the previous run and in this one
AppendEntry(s, text_input, uploaded_file, entry_hashtags) ==
    /\ UNCHANGED call
    /\ Viewable(s)
    /\ panel[s] = "viewable"
    /\ UNCHANGED <<usersFile, session>>
    /\ LET i == FindIndex(all_notes[s], selected_note_id[s])
           selected_note == all_notes[s][i]
           post == PostGate(user_location[s], selected_note)
       IN IF post # "allowed"
          THEN /\ UNCHANGED notesFile
               /\ Complete(s, post)
          ELSE IF text_input = "" /\ uploaded_file = NoneVal
          THEN /\ UNCHANGED notesFile
               /\ Complete(s, "post_empty")
          ELSE /\ Len(selected_note.entries) < MaxEntries
               /\ notesFile' =
                     save_data(notesFile,
                               WithEntry(all_notes[s], i,
                                         NewEntry(current_user[s].name, text_input,
                                                  uploaded_file, entry_hashtags)))
               /\ Rerun(s, "posted")

\* a filter that drops the seeded notes along with the selected one
WithoutNoteOrSeeded(notes, id) ==
    SelectSeq(notes, LAMBDA n : n.id # id /\ n.creator_id # "system")

\* line 572: [n for n in all_notes if n['id'] != selected_note_id]
WithoutNote(notes, id) == SelectSeq(notes, LAMBDA n : n.id # id)

\* lines 566-579
DeleteNote(s) ==
    /\ UNCHANGED call
    /\ Viewable(s)
    /\ panel[s] = "viewable"
    /\ CanDelete(current_user[s], FindNote(all_notes[s], selected_note_id[s]))
    /\ notesFile' =
          save_data(notesFile, WithoutNote(all_notes[s], selected_note_id[s]))
    /\ selected_note_id' = [selected_note_id EXCEPT ![s] = NoneVal]
    /\ nearby_notes' = [nearby_notes EXCEPT ![s] = <<>>]
    /\ search_results' = [search_results EXCEPT ![s] = NoSearch]
    /\ recommended_note_id' = [recommended_note_id EXCEPT ![s] = NoneVal]
    /\ Rerun(s, "deleted")
    /\ UNCHANGED <<usersFile, current_user, center, mode, user_location,
                   initial_load, initial_notes_generated, clicked_location,
                   main_menu, chat_messages, chat_started, switch_to_note_mode>>

\* lines 424-427: every key of the session state is deleted; lines 108-120
\* of the next run restore the defaults
Logout(s) ==
    /\ UNCHANGED call
    /\ MainUI(s)
    /\ main_menu[s] = AccountMenu
    /\ current_user' = [current_user EXCEPT ![s] = NoUser]
    /\ center' = [center EXCEPT ![s] = NoneVal]
    /\ mode' = [mode EXCEPT ![s] = PlaceMode]
    /\ selected_note_id' = [selected_note_id EXCEPT ![s] = NoneVal]
    /\ user_location' = [user_location EXCEPT ![s] = NoLocation]
    /\ initial_load' = [initial_load EXCEPT ![s] = FALSE]
    /\ initial_notes_generated' = [initial_notes_generated EXCEPT ![s] = FALSE]
    /\ clicked_location' = [clicked_location EXCEPT ![s] = NoLocation]
    /\ main_menu' = [main_menu EXCEPT ![s] = NoteMenu]
    /\ chat_messages' = [chat_messages EXCEPT ![s] = <<>>]
    /\ recommended_note_id' = [recommended_note_id EXCEPT ![s] = NoneVal]
    /\ chat_started' = [chat_started EXCEPT ![s] = FALSE]
    /\ switch_to_note_mode' = [switch_to_note_mode EXCEPT ![s] = FALSE]
    /\ search_results' = [search_results EXCEPT ![s] = NoSearch]
    /\ nearby_notes' = [nearby_notes EXCEPT ![s] = <<>>]
    /\ Rerun(s, "none")
    /\ UNCHANGED persisted

\* ------------------------------------------------------------- AI chat
\* A reply is a sequence of chunks: text, whitespace, or a substring that
\* matches the pattern of line 372 (k = "json": v is the value json.loads
\* gives for recommended_note_id, ok = FALSE when json.loads raises).
Txt(v) == [k |-> "txt", v |-> v, ok |-> TRUE]
Ws == [k |-> "ws", v |-> " ", ok |-> TRUE]
Json(v, ok) == [k |-> "json", v |-> v, ok |-> ok]

Reply(body) == [kind |-> "reply", body |-> body]
ProviderError == [kind |-> "error", body |-> <<>>]

ModelReplies ==
    { Reply(<<Txt("chat")>>),
      Reply(<<Json("1", TRUE)>>),
      Reply(<<Json("zz", TRUE)>>),
      Reply(<<Json("", TRUE)>>),
      Reply(<<Json("1", FALSE)>>),
      Reply(<<Txt("Here you go!"), Ws, Json("1", TRUE)>>),
      Reply(<<Ws, Json("1", TRUE), Txt("or"), Ws, Json("1", TRUE), Ws>>),
      ProviderError }

Prompts == {"quiet", "food"}
Greeting == [role |-> "assistant", content |-> <<Txt("greeting")>>]
\* a user turn that loses what was typed
UserTurnBlank(prompt) == [role |-> "user", content |-> <<>>]

\* line 336
UserTurn(prompt) == [role |-> "user", content |-> <<Txt(prompt)>>]
AssistantTurn(content) == [role |-> "assistant", content |-> content]

\* re.search (line 372): the position of the first match, 0 for no match
JsonMatch(body) ==
    IF \E i \in 1..Len(body) : body[i].k = "json"
    THEN CHOOSE i \in 1..Len(body) :
            body[i].k = "json" /\ \A j \in 1..(i - 1) : body[j].k # "json"
    ELSE 0

\* str.strip()
RECURSIVE Strip(_)
Strip(body) ==
    IF body = <<>> THEN <<>>
    ELSE IF Head(body).k = "ws" THEN Strip(Tail(body))
    ELSE IF body[Len(body)].k = "ws" THEN Strip(SubSeq(body, 1, Len(body) - 1))
    ELSE body

\* line 376 without the strip()
ConversationTextNoStrip(body, json_str) ==
    SelectSeq(body, LAMBDA c : c # json_str)

\* line 376: msg.replace(json_str, "").strip()
ConversationText(body, json_str) ==
    Strip(SelectSeq(body, LAMBDA c : c # json_str))

\* lines 372-409 with the else branch of lines 407-409 left out: a reply
\* without a match is handled like one without an id
ReplyBranchNoElse(body) ==
    IF JsonMatch(body) = 0 THEN "no_id"
    ELSE IF ~body[JsonMatch(body)].ok THEN "undecodable"
    ELSE IF body[JsonMatch(body)].v = "" THEN "no_id"
    ELSE "resolved"

\* lines 372-409: which branch a reply takes
ReplyBranch(body) ==
    IF JsonMatch(body) = 0 THEN "no_match"
    ELSE IF ~body[JsonMatch(body)].ok THEN "undecodable"
    ELSE IF body[JsonMatch(body)].v = "" THEN "no_id"
    ELSE "resolved"

\* the start button offered without the check of line 320
StartChatOnEmptyStore(s) ==
    /\ UNCHANGED <<search_results, nearby_notes, call>>
    /\ MainUI(s)
    /\ main_menu[s] = SearchMenu
    /\ chat_started' = [chat_started EXCEPT ![s] = TRUE]
    /\ chat_messages' = [chat_messages EXCEPT ![s] = <<Greeting>>]
    /\ recommended_note_id' = [recommended_note_id EXCEPT ![s] = NoneVal]
    /\ Rerun(s, "none")
    /\ UNCHANGED <<persisted, current_user, center, mode, selected_note_id,
                   user_location, initial_load, initial_notes_generated,
                   clicked_location, main_menu, switch_to_note_mode>>

\* lines 320-329
StartChat(s) ==
    /\ UNCHANGED <<search_results, nearby_notes, call>>
    /\ MainUI(s)
    /\ main_menu[s] = SearchMenu
    /\ all_notes[s] # <<>>
    /\ chat_started' = [chat_started EXCEPT ![s] = TRUE]
    /\ chat_messages' = [chat_messages EXCEPT ![s] = <<Greeting>>]
    /\ recommended_note_id' = [recommended_note_id EXCEPT ![s] = NoneVal]
    /\ Rerun(s, "none")
    /\ UNCHANGED <<persisted, current_user, center, mode, selected_note_id,
                   user_location, initial_load, initial_notes_generated,
                   clicked_location, main_menu, switch_to_note_mode>>

\* lines 341-349: the note summary reads ["data"] of every note's first
\* entry; an entry of type "combined" (line 551) has no such key and the
\* KeyError is raised outside the try of line 365
SummaryFails(notes) ==
    \E i \in 1..Len(notes) :
        notes[i].entries # <<>> /\ notes[i].entries[1].type = "combined"

\* lines 335-370: the user turn is appended and the model is called, unless
\* building the summary raised, which ends the run with the exception shown
SubmitUtterance(s, prompt, reply) ==
    /\ UNCHANGED <<search_results, nearby_notes, call>>
    /\ MainUI(s)
    /\ main_menu[s] = SearchMenu
    /\ all_notes[s] # <<>>
    /\ chat_started[s]
    /\ Len(chat_messages[s]) + 2 <= MaxChat
    /\ chat_messages' = [chat_messages EXCEPT ![s] = Append(@, UserTurn(prompt))]
    /\ UNCHANGED <<persisted, current_user, center, mode, selected_note_id,
                   user_location, initial_load, initial_notes_generated,
                   clicked_location, main_menu, recommended_note_id,
                   chat_started, switch_to_note_mode>>
    /\ IF SummaryFails(all_notes[s])
       THEN /\ EndRun(s)
            /\ panel' = [panel EXCEPT ![s] = "pending"]
            /\ notice' = [notice EXCEPT ![s] = "exception"]
       ELSE /\ pc' = [pc EXCEPT ![s] = "model"]
            /\ msg' = [msg EXCEPT ![s] = reply]
            /\ UNCHANGED <<all_notes, users_data, panel, notice>>

\* lines 371-412: the reply is parsed
ModelReply(s) ==
    /\ UNCHANGED <<search_results, nearby_notes, call>>
    /\ pc[s] = "model"
    /\ UNCHANGED <<persisted, current_user, mode, user_location, initial_load,
                   initial_notes_generated, clicked_location, main_menu>>
    /\ LET body == msg[s].body
           at == JsonMatch(body)
           branch == ReplyBranch(body)
       IN IF msg[s].kind = "error"
          THEN /\ UNCHANGED <<center, selected_note_id, chat_messages,
                              recommended_note_id, chat_started, switch_to_note_mode>>
               /\ Complete(s, "provider_error")
          ELSE IF branch \in {"no_match", "undecodable"}
          THEN /\ chat_messages' = [chat_messages EXCEPT ![s] =
                                       Append(@, AssistantTurn(body))]
               /\ UNCHANGED <<center, selected_note_id, recommended_note_id,
                              chat_started, switch_to_note_mode>>
               /\ Rerun(s, "none")
          ELSE IF branch = "no_id"
          THEN /\ UNCHANGED <<center, selected_note_id, chat_messages,
                              recommended_note_id, chat_started, switch_to_note_mode>>
               /\ Complete(s, "none")
          ELSE LET reco_id == body[at].v
                   conversation_text == ConversationText(body, body[at])
                   recommended_note == FindNote(all_notes[s], reco_id)
               IN /\ chat_messages' = [chat_messages EXCEPT ![s] =
                         IF conversation_text # <<>>
                         THEN Append(@, AssistantTurn(conversation_text)) ELSE @]
                  /\ recommended_note_id' = [recommended_note_id EXCEPT ![s] = reco_id]
                  /\ selected_note_id' = [selected_note_id EXCEPT ![s] = reco_id]
                  /\ chat_started' = [chat_started EXCEPT ![s] = FALSE]
                  /\ switch_to_note_mode' = [switch_to_note_mode EXCEPT ![s] = TRUE]
                  /\ center' = IF recommended_note # NoNote
                               THEN [center EXCEPT ![s] = "coords"] ELSE center
                  /\ Rerun(s, IF recommended_note # NoNote THEN "recommended" ELSE "none")

\* lines 414-417
CancelChat(s) ==
    /\ UNCHANGED <<search_results, nearby_notes, call>>
    /\ MainUI(s)
    /\ main_menu[s] = SearchMenu
    /\ all_notes[s] # <<>>
    /\ chat_started[s]
    /\ chat_started' = [chat_started EXCEPT ![s] = FALSE]
    /\ chat_messages' = [chat_messages EXCEPT ![s] = <<>>]
    /\ Rerun(s, "none")
    /\ UNCHANGED <<persisted, current_user, center, mode, selected_note_id,
                   user_location, initial_load, initial_notes_generated,
                   clicked_location, main_menu, recommended_note_id,
                   switch_to_note_mode>>

\* lines 277-288: the place search
GeocodeSearch(s, search_query, found) ==
    /\ UNCHANGED <<search_results, nearby_notes, call>>
    /\ MainUI(s)
    /\ main_menu[s] = SearchMenu
    /\ UNCHANGED <<persisted, current_user, mode, selected_note_id, user_location,
                   initial_load, initial_notes_generated, clicked_location,
                   main_menu, chat_messages, recommended_note_id, chat_started,
                   switch_to_note_mode>>
    /\ IF search_query # "" /\ found
       THEN /\ center' = [center EXCEPT ![s] = "coords"]
            /\ Rerun(s, "moved")
       ELSE /\ UNCHANGED center
            /\ Complete(s, IF search_query # "" THEN "place_not_found" ELSE "none")

\* ------------------------------------------------------- hashtag search
\* line 292: the search-mode radio
AndMode == "AND"
OrMode == "OR"
SearchModes == {AndMode, OrMode}

\* line 295: the list of normalised query tokens
Queries(hashtag_query_input) ==
    LET toks == split(hashtag_query_input)
    IN [i \in 1..Len(toks) |-> normalize(toks[i])]

\* lines 298-300: the note's own hashtags and those of its entries
all_tags_in_note(note) ==
    {note.hashtags[i] : i \in 1..Len(note.hashtags)}
    \cup UNION {{note.entries[e].hashtags[i] : i \in 1..Len(note.entries[e].hashtags)} :
                   e \in 1..Len(note.entries)}

\* lines 296-305 with AND and OR exchanged
found_notes_swapped(notes, queries, search_mode) ==
    SelectSeq(notes, LAMBDA note :
        IF search_mode = AndMode
        THEN \E i \in 1..Len(queries) : queries[i] \in all_tags_in_note(note)
        ELSE \A i \in 1..Len(queries) : queries[i] \in all_tags_in_note(note))

\* lines 296-305
found_notes(notes, queries, search_mode) ==
    SelectSeq(notes, LAMBDA note :
        IF search_mode = AndMode
        THEN \A i \in 1..Len(queries) : queries[i] \in all_tags_in_note(note)
        ELSE \E i \in 1..Len(queries) : queries[i] \in all_tags_in_note(note))

\* lines 293-310: the search button
HashtagSearch(s, hashtag_query_input, search_mode) ==
    /\ UNCHANGED <<nearby_notes, call>>
    /\ MainUI(s)
    /\ main_menu[s] = SearchMenu
    /\ UNCHANGED <<persisted, current_user, center, mode, selected_note_id,
                   user_location, initial_load, initial_notes_generated,
                   clicked_location, main_menu, chat_messages, recommended_note_id,
                   chat_started, switch_to_note_mode>>
    /\ IF hashtag_query_input # <<>>
       THEN /\ search_results' =
                  [search_results EXCEPT ![s] =
                      [some |-> TRUE,
                       found |-> found_notes(all_notes[s], Queries(hashtag_query_input),
                                             search_mode)]]
            /\ Rerun(s, "searched")
       ELSE /\ UNCHANGED search_results
            /\ Complete(s, "query_missing")

\* lines 312-315: the clear button
ClearSearch(s) ==
    /\ UNCHANGED <<nearby_notes, call>>
    /\ MainUI(s)
    /\ main_menu[s] = SearchMenu
    /\ search_results[s].some
    /\ search_results' = [search_results EXCEPT ![s] = NoSearch]
    /\ Rerun(s, "none")
    /\ UNCHANGED <<persisted, current_user, center, mode, selected_note_id,
                   user_location, initial_load, initial_notes_generated,
                   clicked_location, main_menu, chat_messages, recommended_note_id,
                   chat_started, switch_to_note_mode>>

\* ------------------------------------------------------- specifications
GateReplies ==
    { Reply(<<Json("1", TRUE)>>),
      Reply(<<Json("zz", TRUE)>>) }

\* Spec: one session (user u1) and every handler of the main page; notes are
\* placed 10 km and 11 km from the two points the user is seen at.
GateStep(s) ==
    \/ \E loc \in UserPlaces \cup {NoLocation} : RunStart(s, loc)
    \/ \E pw \in Passwords \cup {"bad"} : Login(s, "u1", pw)
    \/ AuthRender(s)
    \/ \E resp \in {<<>>, <<PlaceA>>}, ok \in BOOLEAN : Seed(s, resp, ok)
    \/ InitialLoad(s)
    \/ Locating(s)
    \/ Render(s)
    \/ \E m \in Menus : SetMenu(s, m)
    \/ \E m \in Modes : SetMode(s, m)
    \/ MapClick(s, 31)
    \/ \E title \in {"", "T"} : CreateNote(s, title, <<>>, "1")
    \/ CancelPlacement(s)
    \/ \E id \in {"1", "gA"} : SelectNote(s, id)
    \/ \E text \in {"", "hello"} : AppendEntry(s, text, NoneVal, <<>>)
    \/ DeleteNote(s)
    \/ Logout(s)
    \/ StartChat(s)
    \/ \E reply \in GateReplies : SubmitUtterance(s, "quiet", reply)
    \/ ModelReply(s)
    \/ CancelChat(s)
    \/ \E q \in {"", "Tokyo"}, found \in BOOLEAN : GeocodeSearch(s, q, found)

Next == GateStep("s1")

Spec == Init /\ [][Next]_vars

\* SpecStore: two sessions racing on notes.json, u1 in s1 and u2 in s2, just
\* logged in (lines 136-138), over a store that holds one seeded note.  Only
\* s1 places notes.
UserOf == [s \in Sessions |-> Registered[IF s = "s1" THEN "u1" ELSE "u2"]]

InitStore == InitWith(<<NoteOfPlace(PlaceA)>>, UserOf)

StoreStep(s) ==
    \/ RunStart(s, 20)
    \/ InitialLoad(s)
    \/ Render(s)
    \/ \E m \in Modes : SetMode(s, m)
    \/ s = "s1" /\ MapClick(s, 30)
    \/ CreateNote(s, "T", <<>>, "1")
    \/ \E id \in {"1", "gA"} : SelectNote(s, id)
    \/ AppendEntry(s, "hello", NoneVal, <<>>)
    \/ DeleteNote(s)

NextStore == \E s \in Sessions : StoreStep(s)

SpecStore == InitStore /\ [][NextStore]_vars

\* SpecPlace: two sessions placing notes in an empty store; the clock may
\* give both the same reading.
InitPlace == InitWith(<<>>, UserOf)

PlaceStep(s) ==
    \/ RunStart(s, 20)
    \/ \E ok \in BOOLEAN : Seed(s, <<>>, ok)
    \/ InitialLoad(s)
    \/ Render(s)
    \/ MapClick(s, 30)
    \/ \E title \in {"", "T"}, now \in Clock : CreateNote(s, title, <<>>, now)
    \/ CancelPlacement(s)

NextPlace == \E s \in Sessions : PlaceStep(s)

SpecPlace == InitPlace /\ [][NextPlace]_vars

\* SpecChat: one session and the AI chat with every shape of reply, over a
\* store that already holds a note (id "1", placed by u1).
NoteOne ==
    [id |-> "1", title |-> "T", hashtags |-> <<>>, pos |-> 30,
     creator_id |-> "u1", creator_name |-> "Ann", entries |-> <<>>]

InitChat == InitWith(<<NoteOne>>, [s \in Sessions |-> NoUser])

ChatStep(s) ==
    \/ \E loc \in {20, NoLocation} : RunStart(s, loc)
    \/ \E pw \in Passwords \cup {"bad"} : Login(s, "u1", pw)
    \/ AuthRender(s)
    \/ InitialLoad(s)
    \/ Locating(s)
    \/ Render(s)
    \/ \E m \in Menus : SetMenu(s, m)
    \/ \E m \in Modes : SetMode(s, m)
    \/ SelectNote(s, "1")
    \/ DeleteNote(s)
    \/ Logout(s)
    \/ StartChat(s)
    \/ \E prompt \in Prompts, reply \in ModelReplies : SubmitUtterance(s, prompt, reply)
    \/ ModelReply(s)
    \/ CancelChat(s)

NextChat == ChatStep("s1")

SpecChat == InitChat /\ [][NextChat]_vars

\* SpecTalk: one logged-in session (u1) that writes entries, with or without
\* an image, to the note it is next to and consults the AI, whose provider
\* may fail.
TalkReplies == { ProviderError, Reply(<<Json("1", TRUE)>>) }

InitTalk ==
    InitWith(<<NoteOne>>, [s \in Sessions |-> IF s = "s1" THEN Registered["u1"] ELSE NoUser])

TalkStep(s) ==
    \/ RunStart(s, 20)
    \/ InitialLoad(s)
    \/ Render(s)
    \/ \E m \in Menus : SetMenu(s, m)
    \/ SetMode(s, WriteMode)
    \/ SelectNote(s, "1")
    \/ \E file \in {NoneVal, "img"} : AppendEntry(s, "hello", file, <<>>)
    \/ StartChat(s)
    \/ \E reply \in TalkReplies : SubmitUtterance(s, "quiet", reply)
    \/ ModelReply(s)
    \/ CancelChat(s)

NextTalk == TalkStep("s1")

SpecTalk == InitTalk /\ [][NextTalk]_vars

\* SpecSearch: one logged-in session (u1) searching, by every short query
\* string, a store of three notes whose hashtags differ in case and sit on
\* the note or on its entries.
MaxQuery == 3

\* the strings of at most n characters
RECURSIVE Strings(_)
Strings(n) ==
    IF n = 0 THEN {<<>>}
    ELSE Strings(n - 1) \cup {Append(str, c) : str \in Strings(n - 1), c \in Chars}

SearchCorpus ==
    << [NoteOne EXCEPT !.hashtags = parse_hashtags(<<"a">>),
                       !.entries = <<NewEntry("Ann", "hello", NoneVal, <<"#", "A">>)>>],
       [NoteOne EXCEPT !.id = "2", !.hashtags = parse_hashtags(<<"A">>)],
       NoteOfPlace(PlaceA) >>

InitSearch ==
    InitWith(SearchCorpus,
             [s \in Sessions |-> IF s = "s1" THEN Registered["u1"] ELSE NoUser])

QueryInputs == Strings(MaxQuery)

SearchStep(s) ==
    \/ RunStart(s, 20)
    \/ InitialLoad(s)
    \/ Render(s)
    \/ \E m \in {NoteMenu, SearchMenu} : SetMenu(s, m)
    \/ SetMode(s, WriteMode)
    \/ \E id \in {"1", "2"} : SelectNote(s, id)
    \/ \E q \in QueryInputs, m \in SearchModes : HashtagSearch(s, q, m)
    \/ ClearSearch(s)

NextSearch == SearchStep("s1")

SpecSearch == InitSearch /\ [][NextSearch]_vars

\* SpecTags: normalize and parse_hashtags applied on their own to every
\* short string, and then applied again to what they returned (for
\* parse_hashtags, to the returned tags joined by spaces).
MaxTag == 4

TagCalls ==
    {[fn |-> "normalize", arg |-> tok, out |-> <<>>, again |-> <<>>, phase |-> 0] :
        tok \in {str \in Strings(MaxTag) :
                   str # <<>> /\ \A i \in 1..Len(str) : str[i] # " "}}
    \cup {[fn |-> "parse_hashtags", arg |-> str, out |-> <<>>, again |-> <<>>,
           phase |-> 0] : str \in Strings(MaxTag)}

InitTags ==
    \E applied \in TagCalls : InitFull(<<>>, [s \in Sessions |-> NoUser], applied)

Apply ==
    /\ call.phase = 0
    /\ call' = [call EXCEPT !.phase = 1,
                            !.out = IF call.fn = "normalize" THEN normalize(call.arg)
                                    ELSE parse_hashtags(call.arg)]
    /\ UNCHANGED <<persisted, session, local>>

ApplyAgain ==
    /\ call.phase = 1
    /\ call' = [call EXCEPT !.phase = 2,
                            !.again = IF call.fn = "normalize" THEN normalize(call.out)
                                      ELSE parse_hashtags(join(call.out))]
    /\ UNCHANGED <<persisted, session, local>>

NextTags == Apply \/ ApplyAgain

SpecTags == InitTags /\ [][NextTags]_vars

\* SpecSeed: two sessions over an empty store; either may be the one whose
\* run seeds it, and s1 may place a note of its own in the meantime.
SeedStep(s) ==
    \/ RunStart(s, 20)
    \/ \E resp \in SeedResponses, ok \in BOOLEAN : Seed(s, resp, ok)
    \/ InitialLoad(s)
    \/ Render(s)
    \/ \E m \in Modes : SetMode(s, m)
    \/ s = "s1" /\ MapClick(s, 30)
    \/ CreateNote(s, "T", <<>>, "1")
    \/ CancelPlacement(s)

NextSeed == \E s \in Sessions : SeedStep(s)

SpecSeed == InitPlace /\ [][NextSeed]_vars

\* SpecDelete: one logged-in session (u1) over a store of a seeded note and
\* two notes of its own, one of them 11 km from where the user may stand; the
\* user searches, follows the AI's recommendation, selects and deletes.
DeleteCorpus ==
    << NoteOfPlace(PlaceA),
       [NoteOne EXCEPT !.pos = 31, !.hashtags = parse_hashtags(<<"a">>)],
       [NoteOne EXCEPT !.id = "2", !.hashtags = parse_hashtags(<<"A">>)] >>

InitDelete ==
    InitWith(DeleteCorpus,
             [s \in Sessions |-> IF s = "s1" THEN Registered["u1"] ELSE NoUser])

DeleteStep(s) ==
    \/ \E loc \in UserPlaces : RunStart(s, loc)
    \/ InitialLoad(s)
    \/ Render(s)
    \/ \E m \in {NoteMenu, SearchMenu} : SetMenu(s, m)
    \/ SetMode(s, WriteMode)
    \/ \E id \in {"1", "2", "gA"} : SelectNote(s, id)
    \/ \E q \in {<<"a">>, <<"#", "A">>} : HashtagSearch(s, q, AndMode)
    \/ ClearSearch(s)
    \/ StartChat(s)
    \/ SubmitUtterance(s, "quiet", Reply(<<Json("1", TRUE)>>))
    \/ ModelReply(s)
    \/ CancelChat(s)
    \/ DeleteNote(s)

NextDelete == DeleteStep("s1")

SpecDelete == InitDelete /\ [][NextDelete]_vars

\* SpecAuth: two browser sessions on the auth page while users.json is still
\* empty (the store holds a seeded note); each may register, log in, and log
\* out again.
InitAuth ==
    InitAll(NoUsers, <<NoteOfPlace(PlaceA)>>, [s \in Sessions |-> NoUser], NoCall)

AuthStep(s) ==
    \/ \E loc \in {20, NoLocation} : RunStart(s, loc)
    \/ \E pw \in {"pw", "pw2"} : Login(s, "u1", pw)
    \/ \E id \in {"", "u1"}, pw \in {"pw", "pw2"} :
          Register(s, id, IF s = "s1" THEN "Ann" ELSE "Bob", pw)
    \/ AuthRender(s)
    \/ InitialLoad(s)
    \/ Locating(s)
    \/ Render(s)
    \/ SetMenu(s, AccountMenu)
    \/ Logout(s)

NextAuth == \E s \in Sessions : AuthStep(s)

SpecAuth == InitAuth /\ [][NextAuth]_vars

\* ------------------------------------------------------------- properties
\* the session whose run a step starts or ends
Acts(s) == pc'[s] # pc[s]

\* a step that ends a run of session s
EndsRun(s) == pc[s] # "idle" /\ pc'[s] = "idle"

IsPrefix(a, b) == Len(a) <= Len(b) /\ SubSeq(b, 1, Len(a)) = a

\* the first note of a collection that carries the id
FirstWithId(notes, id) ==
    notes[CHOOSE i \in 1..Len(notes) :
             notes[i].id = id /\ \A j \in 1..(i - 1) : notes[j].id # id]

\* ---- C1
\* the rule of the claim for the run that session s ends: the note panel is
\* open on a selected id, a note with that id is in the collection the run
\* loaded, and the user is known to be within 10 km of it (10 km included) or
\* the id is the recommended one
C1_Rule(s) ==
    LET sel == selected_note_id'[s]
    IN /\ main_menu'[s] = NoteMenu /\ mode'[s] = WriteMode /\ sel # NoneVal
       /\ sel \in Ids(all_notes[s])
       /\ \/ sel = recommended_note_id'[s]
          \/ /\ user_location'[s] # NoLocation
             /\ Abs(user_location'[s] - FirstWithId(all_notes[s], sel).pos) <= RadiusKm

\* C1: a run that renders the right column shows the selected note's body
\* exactly when the note exists in the loaded collection and the user is
\* within 10 km of it (inclusive) or it is the recommended note; in every
\* other case the body is not shown.
C1_ViewGate ==
    [][\A s \in Sessions :
          EndsRun(s) /\ panel'[s] \notin {"pending", "auth", "locating"}
          => (panel'[s] = "viewable" <=> C1_Rule(s))]_vars

\* a note 11 km away is shown because it is the recommended one
C1_Witness ==
    /\ panel["s1"] = "viewable"
    /\ recommended_note_id["s1"] = selected_note_id["s1"]
    /\ selected_note_id["s1"] \in Ids(notesFile)
    /\ Abs(user_location["s1"] - FirstWithId(notesFile, selected_note_id["s1"]).pos) > RadiusKm

\* ---- C2
\* session s submits the entry form in this step
Submits(s) ==
    /\ EndsRun(s)
    /\ notice'[s] \in {"posted", "post_empty", "post_too_far", "post_no_location"}

\* the submission passed the gate of the submit handler
Permitted(s) == notice'[s] \in {"posted", "post_empty"}

C3_FailClosed ==
    \A s \in Sessions :
        user_location[s] = NoLocation
        => /\ panel[s] \notin {"viewable", "too_far"}
           /\ notice[s] \notin {"posted", "post_empty", "post_too_far"}
           /\ (LoggedIn(s) /\ panel[s] # "pending"
                 => panel[s] \in {"locating", "location_unavailable"})

\* a logged-in user without a location sample looks at a store with notes
C3_Witness ==
    /\ LoggedIn("s1")
    /\ user_location["s1"] = NoLocation
    /\ panel["s1"] = "locating"
    /\ notesFile # <<>>

\* ---- C4
\* C4 (as amended): a note id leaves the persisted store only in a save by a
\* session whose loaded copy lacked the id (last write wins), or in a delete
\* by a session that selected the id, passes the view gate, and whose user
\* id is the creator_id of the note in its loaded copy; that delete writes
\* the loaded copy without the notes of that id and nothing else changed.
C4_DeleteOnlyByCreator ==
    [][\A s \in Sessions : \A id \in Ids(notesFile) \ Ids(notesFile') :
          Acts(s)
          => \/ id \notin Ids(all_notes[s])
             \/ /\ notice'[s] = "deleted"
                /\ selected_note_id[s] = id
                /\ FirstWithId(all_notes[s], id).creator_id = current_user[s].id
                /\ \/ id = recommended_note_id[s]
                   \/ /\ user_location[s] # NoLocation
                      /\ Abs(user_location[s] - FirstWithId(all_notes[s], id).pos)
                            <= RadiusKm
                /\ Ids(notesFile') = Ids(all_notes[s]) \ {id}
                /\ \A i \in 1..Len(notesFile') :
                      \E j \in 1..Len(all_notes[s]) : notesFile'[i] = all_notes[s][j]]_vars

\* the creator deleted the note they placed
C4_Witness ==
    /\ notice["s1"] = "deleted"
    /\ "1" \notin Ids(notesFile)
    /\ current_user["s1"].id = "u1"

\* C4 as the claim states it: under every interleaving a note leaves the
\* store only through a delete issued by the user who created it.
C4_OnlyCreatorRemoves ==
    [][\A id \in Ids(notesFile) \ Ids(notesFile') :
          \E s \in Sessions :
              /\ Acts(s)
              /\ notice'[s] = "deleted"
              /\ selected_note_id[s] = id
              /\ FirstWithId(notesFile, id).creator_id = current_user[s].id]_vars

\* ---- C5
\* C5 (as amended): a save keeps, for every note of the saving session's
\* loaded copy that it keeps, the loaded entries unchanged or followed by
\* exactly one new entry; nothing is promised about entries persisted by
\* other sessions after the load.
C5_AppendOnlyFromLoadedCopy ==
    [][\A s \in Sessions :
          Acts(s) /\ notesFile' # notesFile
          => \A id \in Ids(all_notes[s]) \cap Ids(notesFile') :
                LET before == FirstWithId(all_notes[s], id).entries
                    after == FirstWithId(notesFile', id).entries
                IN /\ IsPrefix(before, after)
                   /\ Len(after) <= Len(before) + 1]_vars

\* an entry was appended behind the one the seeded note already had
C5_Witness ==
    /\ notice["s2"] = "posted"
    /\ "gA" \in Ids(notesFile)
    /\ Len(FirstWithId(notesFile, "gA").entries) = 2
    /\ FirstWithId(notesFile, "gA").entries[2].author_name = "Bob"

\* C5 as the claim states it: under every interleaving the persisted entries
\* of a note that stays in the store only grow at the end.
C5_PersistedEntriesOnlyGrow ==
    [][\A id \in Ids(notesFile) \cap Ids(notesFile') :
          IsPrefix(FirstWithId(notesFile, id).entries,
                   FirstWithId(notesFile', id).entries)]_vars

\* ---- C6
\* C6: the ids of the notes in the persisted store are pairwise distinct.
C6_UniqueIds ==
    \A i, j \in 1..Len(notesFile) : i # j => notesFile[i].id # notesFile[j].id

\* ---- C7
\* C7: a recommendation is recorded only for an id of a note that is in the
\* store at resolution time (the collection the run loaded).
C7_RecommendationExists ==
    [][\A s \in Sessions :
          /\ recommended_note_id'[s] # recommended_note_id[s]
          /\ recommended_note_id'[s] # NoneVal
          => recommended_note_id'[s] \in Ids(all_notes[s])]_vars

\* ---- C8
\* the reply that session s is about to parse
HasJson(body) == \E i \in 1..Len(body) : body[i].k = "json"

FirstJson(body) ==
    body[CHOOSE i \in 1..Len(body) :
            body[i].k = "json" /\ \A j \in 1..(i - 1) : body[j].k # "json"]

Parses(s) == pc[s] = "model" /\ msg[s].kind = "reply" /\ pc'[s] = "idle"

\* the reply without the matched JSON text, trimmed at both ends
Remainder(body) ==
    LET rest == SelectSeq(body, LAMBDA c : c # FirstJson(body))
        solid == {i \in 1..Len(rest) : rest[i].k # "ws"}
    IN IF solid = {} THEN <<>>
       ELSE SubSeq(rest, CHOOSE i \in solid : \A j \in solid : i <= j,
                         CHOOSE i \in solid : \A j \in solid : j <= i)

\* C8: when a recommended note id is extracted from the reply, the chat
\* ends, the id becomes the recommended and the selected note id, and the
\* reply with the JSON text removed and trimmed is added to the transcript
\* as one assistant turn if it is not empty, and nothing is added otherwise.
C8_Resolution ==
    [][\A s \in Sessions :
          /\ Parses(s)
          /\ HasJson(msg[s].body)
          /\ FirstJson(msg[s].body).ok
          /\ FirstJson(msg[s].body).v # ""
          => LET rest == Remainder(msg[s].body)
             IN /\ chat_started[s] /\ ~chat_started'[s]
                /\ recommended_note_id'[s] = FirstJson(msg[s].body).v
                /\ selected_note_id'[s] = FirstJson(msg[s].body).v
                /\ chat_messages'[s] =
                      IF rest # <<>>
                      THEN Append(chat_messages[s],
                                  [role |-> "assistant", content |-> rest])
                      ELSE chat_messages[s]]_vars

\* the remainder "Here you go!" is the last turn and the chat is over
C8_Witness ==
    /\ ~chat_started["s1"]
    /\ recommended_note_id["s1"] = "1"
    /\ selected_note_id["s1"] = "1"
    /\ chat_messages["s1"] # <<>>
    /\ chat_messages["s1"][Len(chat_messages["s1"])] =
          [role |-> "assistant", content |-> <<Txt("Here you go!")>>]

\* ---- C9
\* C9: a reply without a JSON block is added whole to the transcript as an
\* assistant turn; the chat stays active and the recommended and selected
\* note ids stay as they were.
C9_Continues ==
    [][\A s \in Sessions :
          Parses(s) /\ ~HasJson(msg[s].body)
          => /\ chat_messages'[s] =
                   Append(chat_messages[s],
                          [role |-> "assistant", content |-> msg[s].body])
             /\ chat_started[s] /\ chat_started'[s]
             /\ recommended_note_id'[s] = recommended_note_id[s]
             /\ selected_note_id'[s] = selected_note_id[s]]_vars

\* the plain reply is the last turn of a chat that goes on
C9_Witness ==
    /\ chat_started["s1"]
    /\ Len(chat_messages["s1"]) >= 3
    /\ chat_messages["s1"][Len(chat_messages["s1"])] =
          [role |-> "assistant", content |-> <<Txt("chat")>>]

\* ---- C10
\* C10: a reply whose JSON block gives no usable id (it does not parse, or
\* the id is empty) is no decision: the whole reply is added to the
\* transcript as an assistant turn, the chat stays active and no id is set.
C10_NoReplyDropped ==
    [][\A s \in Sessions :
          /\ Parses(s)
          /\ HasJson(msg[s].body)
          /\ ~FirstJson(msg[s].body).ok \/ FirstJson(msg[s].body).v = ""
          => /\ chat_messages'[s] =
                   Append(chat_messages[s],
                          [role |-> "assistant", content |-> msg[s].body])
             /\ chat_started'[s]
             /\ recommended_note_id'[s] = recommended_note_id[s]
             /\ selected_note_id'[s] = selected_note_id[s]]_vars

\* ---- C11
\* session s submits an utterance in this step
SubmitsUtterance(s) ==
    /\ pc[s] = "run"
    /\ Len(chat_messages'[s]) = Len(chat_messages[s]) + 1
    /\ chat_messages'[s][Len(chat_messages'[s])].role = "user"

\* C11: a failed model call is reported and leaves the chat active with the
\* recommendation, the transcript and the note store as they were; the model
\* is called only for a submitted utterance, and every submitted utterance
\* gets exactly one model call.
C11_ProviderErrorRecoverable ==
    [][\A s \in Sessions :
          /\ pc[s] = "model" /\ msg[s].kind = "error" /\ pc'[s] = "idle"
             => /\ notice'[s] = "provider_error"
                /\ chat_started[s] /\ chat_started'[s]
                /\ recommended_note_id'[s] = recommended_note_id[s]
                /\ chat_messages'[s] = chat_messages[s]
                /\ notesFile' = notesFile
          /\ pc[s] # "model" /\ pc'[s] = "model" => SubmitsUtterance(s)
          /\ SubmitsUtterance(s) => pc'[s] = "model"]_vars

\* ---- C12
\* C12: in every run that shows the search menu while the chat is active the
\* cancel button can be pressed; pressing it ends the chat, empties the
\* transcript and leaves the note store as it was.
C12_CancelAlwaysAvailable ==
    /\ [](\A s \in Sessions :
             MainUI(s) /\ main_menu[s] = SearchMenu /\ chat_started[s]
             => ENABLED CancelChat(s))
    /\ [][\A s \in Sessions :
             CancelChat(s)
             => /\ ~chat_started'[s]
                /\ chat_messages'[s] = <<>>
                /\ notesFile' = notesFile]_vars

\* ---- C13
\* session s starts the chat in this step: the chat becomes active, or stays
\* active with a transcript that does not continue the one before
Starts(s) ==
    /\ pc[s] = "run"
    /\ chat_started'[s]
    /\ ~chat_started[s] \/ ~IsPrefix(chat_messages[s], chat_messages'[s])

\* C13: a run that loaded an empty store cannot start the chat and leaves
\* the chat state as it was; a start happens only over a non-empty store and
\* leaves exactly one turn in the transcript, the assistant's fixed greeting,
\* with recommended_note_id cleared.
C13_Start ==
    [][\A s \in Sessions :
          /\ Starts(s)
             => /\ all_notes[s] # <<>>
                /\ chat_messages'[s] =
                      <<[role |-> "assistant", content |-> <<Txt("greeting")>>]>>
                /\ recommended_note_id'[s] = NoneVal
          /\ pc[s] = "run" /\ all_notes[s] = <<>> /\ current_user'[s] = current_user[s]
             => /\ chat_started'[s] = chat_started[s]
                /\ chat_messages'[s] = chat_messages[s]
                /\ recommended_note_id'[s] = recommended_note_id[s]]_vars

\* a new chat was started after an earlier one had recommended note "1"
C13_Witness ==
    /\ chat_started["s1"]
    /\ chat_messages["s1"] = <<Greeting>>
    /\ recommended_note_id["s1"] = NoneVal
    /\ selected_note_id["s1"] = "1"
    /\ mode["s1"] = WriteMode
    /\ main_menu["s1"] = SearchMenu

\* ---- C18
\* the run that session s starts goes on to the main page and recomputes the
\* nearby-notes list (a location is known and no search result is held)
Recomputes(s) ==
    /\ pc[s] = "idle" /\ MainUI(s)'
    /\ user_location'[s] # NoLocation
    /\ search_results[s].found = <<>>

\* the k-th smallest element of a set of numbers
Kth(S, k) == CHOOSE i \in S : Cardinality({j \in S : j <= i}) = k

\* C18: a recomputed nearby-notes list holds exactly the notes of the loaded
\* store that are at most 10 km from the user (10 km included), in store
\* order, and the store and its notes are left as they were.
C18_ProximityFilter ==
    [][\A s \in Sessions :
          Recomputes(s)
          => LET store == all_notes'[s]
                 close == {i \in 1..Len(store) :
                             Abs(user_location'[s] - store[i].pos) <= 10}
             IN /\ Len(nearby_notes'[s]) = Cardinality(close)
                /\ \A k \in 1..Len(nearby_notes'[s]) :
                      nearby_notes'[s][k] = store[Kth(close, k)]
                /\ store = notesFile
                /\ notesFile' = notesFile]_vars

\* of two stored notes the one 10 km away is listed, the one 11 km away not
C18_Witness ==
    /\ Len(notesFile) = 2
    /\ user_location["s1"] = 20
    /\ pc["s1"] = "run"
    /\ all_notes["s1"] = notesFile
    /\ Len(nearby_notes["s1"]) = 1
    /\ nearby_notes["s1"][1].pos = 30
    /\ \E i \in 1..2 : notesFile[i].pos = 31

\* ---- C14
RECURSIVE IsSubList(_, _)
IsSubList(a, b) ==
    IF a = <<>> THEN TRUE
    ELSE IF b = <<>> THEN FALSE
    ELSE IF Head(a) = Head(b) THEN IsSubList(Tail(a), Tail(b))
    ELSE IsSubList(a, Tail(b))

\* C14: for every input the handler accepts (every non-empty string, those
\* made of whitespace only included), what a search in AND mode finds is a
\* sub-list of what a search in OR mode finds in the same store.
C14_AndWithinOr ==
    [][\A s \in Sessions : \A q \in QueryInputs \ {<<>>} :
          notice'[s] = "searched" /\ HashtagSearch(s, q, AndMode)
          => IsSubList(search_results'[s].found,
                       found_notes(all_notes[s], Queries(q), OrMode))]_vars

\* ---- C15
\* the tokens of a string: its maximal runs of non-whitespace characters
TokensOf(str) ==
    {SubSeq(str, p[1], p[2]) :
        p \in {r \in (1..Len(str)) \X (1..Len(str)) :
                 /\ r[1] <= r[2]
                 /\ \A k \in r[1]..r[2] : str[k] # " "
                 /\ r[1] = 1 \/ str[r[1] - 1] = " "
                 /\ r[2] = Len(str) \/ str[r[2] + 1] = " "}}

\* "#" followed by the token without its leading "#"s
Hashed(tok) ==
    LET lead == Cardinality({i \in 1..Len(tok) : \A j \in 1..i : tok[j] = "#"})
    IN <<"#">> \o SubSeq(tok, lead + 1, Len(tok))

\* the set of query tags derived from a search input
QueryTags(str) == {Hashed(tok) : tok \in TokensOf(str)}

\* C15: a search whose input yields no query tag (the empty input, or one
\* without any token) is refused with the warning and leaves search_results
\* as it was.
C15_EmptyQueryRejected ==
    [][\A s \in Sessions : \A q \in QueryInputs, m \in SearchModes :
          /\ pc[s] = "run" /\ notice'[s] \in {"searched", "query_missing"}
          /\ QueryTags(q) = {}
          /\ HashtagSearch(s, q, m)
          => /\ notice'[s] = "query_missing"
             /\ search_results'[s] = search_results[s]]_vars

\* ---- C16
\* the hashtags of a note and of all of its entries
TagsOfNote(note) ==
    {note.hashtags[i] : i \in DOMAIN note.hashtags}
    \cup {tag \in UNION {{e.hashtags[i] : i \in DOMAIN e.hashtags} :
                            e \in {note.entries[k] : k \in DOMAIN note.entries}} : TRUE}

\* C16: for an input with at least one query tag, the search result is the
\* list, in store order and without repetition, of exactly the notes whose
\* hashtags (their own and those of their entries) contain every query tag
\* in AND mode, some query tag in OR mode; tags are compared as they are
\* written, upper and lower case being different.
C16_SearchSemantics ==
    [][\A s \in Sessions : \A q \in QueryInputs, m \in SearchModes :
          /\ pc[s] = "run" /\ notice'[s] = "searched"
          /\ QueryTags(q) # {}
          /\ HashtagSearch(s, q, m)
          => LET store == all_notes[s]
                 hits == {i \in 1..Len(store) :
                            IF m = AndMode
                            THEN QueryTags(q) \subseteq TagsOfNote(store[i])
                            ELSE QueryTags(q) \cap TagsOfNote(store[i]) # {}}
                 found == search_results'[s].found
             IN /\ search_results'[s].some
                /\ Len(found) = Cardinality(hits)
                /\ \A k \in 1..Len(found) : found[k] = store[Kth(hits, k)]]_vars

\* a search for the lower-case tag found the first and the third note, in
\* that order, and not the second, whose tag is the upper-case one
C16_Witness ==
    /\ search_results["s1"].some
    /\ Len(search_results["s1"].found) = 2
    /\ search_results["s1"].found[1].id = "1"
    /\ search_results["s1"].found[2].id = "gA"
    /\ notice["s1"] = "searched"

\* ---- C17
\* the order of characters by code point, and of strings character by
\* character
Alphabet == <<" ", "#", "A", "a">>

Before(c, d) ==
    \E i, j \in 1..Len(Alphabet) : Alphabet[i] = c /\ Alphabet[j] = d /\ i < j

Lex(x, y) ==
    \E k \in 1..(Len(y)) :
        /\ \A i \in 1..(k - 1) : i <= Len(x) /\ x[i] = y[i]
        /\ k > Len(x) \/ (k <= Len(x) /\ Before(x[k], y[k]))

\* C17: normalize(t) is "#" followed by t without its leading "#"s, and
\* normalizing again changes nothing; parse_hashtags returns the normalized
\* tokens of its input without duplicates in lexicographic order, and parsing
\* its output joined by spaces returns the same list.
C17_NormalizeIdempotent ==
    /\ call.fn = "normalize" /\ call.phase >= 1 => call.out = Hashed(call.arg)
    /\ call.fn = "normalize" /\ call.phase = 2 => call.again = call.out
    /\ call.fn = "parse_hashtags" /\ call.phase >= 1
       => /\ {call.out[i] : i \in 1..Len(call.out)} = QueryTags(call.arg)
          /\ \A i, j \in 1..Len(call.out) : i < j => Lex(call.out[i], call.out[j])
    /\ call.fn = "parse_hashtags" /\ call.phase = 2 => call.again = call.out

\* "a #a" was parsed to the single tag "#a", and so was "#a" again
C17_Witness ==
    /\ call.fn = "parse_hashtags"
    /\ call.phase = 2
    /\ call.arg = <<"a", " ", "#", "a">>
    /\ call.out = << <<"#", "a">> >>
    /\ call.again = call.out

\* ---- C19
\* what a geolocation poll can report
Polls == UserPlaces \cup {NoLocation}

\* the proximity test of both gates, made against location sample l
WithinRadius(l, note) == l # NoLocation /\ Abs(l - note.pos) <= RadiusKm

\* C19: in a run of a logged-in session whose geolocation poll reported
\* sample l, the location the view gate and the append gate decide on puts
\* the user within 10 km of a loaded note exactly when l does; when the poll
\* reported the location as unavailable, no note is within reach.
C19_GateUsesLatestPoll ==
    [][\A s \in Sessions : \A l \in Polls :
          LoggedIn(s) /\ pc[s] = "idle" /\ RunStart(s, l)
          => \A i \in 1..Len(all_notes'[s]) :
                WithinRadius(user_location'[s], all_notes'[s][i])
                <=> WithinRadius(l, all_notes'[s][i])]_vars

\* ---- C20
\* notes is the collection before with one note added at the end
OneCreated(before, notes) ==
    Len(notes) = Len(before) + 1 /\ IsPrefix(before, notes)

\* notes is the collection before with one entry added at the end of one note
OneAppended(before, notes) ==
    /\ Len(notes) = Len(before)
    /\ \E i \in 1..Len(before) :
          /\ \A j \in 1..Len(before) : j # i => notes[j] = before[j]
          /\ Len(notes[i].entries) = Len(before[i].entries) + 1
          /\ notes[i] = [before[i] EXCEPT !.entries = SubSeq(notes[i].entries, 1,
                                                          Len(before[i].entries) + 1)]
          /\ IsPrefix(before[i].entries, notes[i].entries)

\* notes is the collection before without the notes that carry the id
OneDeleted(before, notes, id) ==
    /\ id \in Ids(before)
    /\ notes = SelectSeq(before, LAMBDA n : n.id # id)

\* C20: every save by a session writes the whole collection, and what it
\* writes is the collection that session loaded with its one mutation
\* applied (a note created, an entry appended, or the selected note deleted),
\* whatever the file held just before; mutations saved by another session
\* after that load are lost.
C20_LastWriteWins ==
    [][\A s \in Sessions :
          Acts(s) /\ notesFile' # notesFile
          => \/ notice'[s] = "created" /\ OneCreated(all_notes[s], notesFile')
             \/ notice'[s] = "posted" /\ OneAppended(all_notes[s], notesFile')
             \/ /\ notice'[s] = "deleted"
                /\ OneDeleted(all_notes[s], notesFile', selected_note_id[s])]_vars

\* s1 saved the note it placed; s2, which had loaded before that, then saved
\* its entry, and the note of s1 is gone from the file
C20_Witness ==
    /\ notice["s1"] = "created"
    /\ notice["s2"] = "posted"
    /\ Ids(notesFile) = {"gA"}
    /\ Len(FirstWithId(notesFile, "gA").entries) = 2

\* ---- C21
\* session s seeds the store in this step
Seeds(s) == Acts(s) /\ notice'[s] = "seeded"

\* C21: a run seeds the store only when the persisted store holds no note
\* and the session has not seeded before; the seeded notes have pairwise
\* distinct ids; and no persisted note is removed or replaced by seeding.
C21_SeedOnlyIntoEmptyStore ==
    [][\A s \in Sessions :
          Seeds(s)
          => /\ notesFile = <<>>
             /\ ~initial_notes_generated[s]
             /\ \A i, j \in 1..Len(notesFile') :
                   i # j => notesFile'[i].id # notesFile'[j].id
             /\ \A i \in 1..Len(notesFile) :
                   \E j \in 1..Len(notesFile') : notesFile'[j] = notesFile[i]]_vars

\* ---- C22
\* C22: a successful append writes the session's loaded collection with
\* exactly one entry, signed with the current user's name, added at the end
\* of the selected note's entries; the other fields of that note and all
\* other notes of the collection are as loaded; a submission that is refused
\* by the gate or is empty leaves the persisted store as it was.
C22_AppendFrame ==
    [][\A s \in Sessions :
          Submits(s)
          => IF notice'[s] = "posted"
             THEN /\ Len(notesFile') = Len(all_notes[s])
                  /\ \E i \in 1..Len(all_notes[s]) :
                        LET before == all_notes[s][i]
                            after == notesFile'[i]
                        IN /\ before.id = selected_note_id[s]
                           /\ \A j \in 1..Len(all_notes[s]) :
                                 j # i => notesFile'[j] = all_notes[s][j]
                           /\ Len(after.entries) = Len(before.entries) + 1
                           /\ IsPrefix(before.entries, after.entries)
                           /\ after.entries[Len(after.entries)].author_name
                                 = current_user[s].name
                           /\ after.id = before.id
                           /\ after.title = before.title
                           /\ after.hashtags = before.hashtags
                           /\ after.pos = before.pos
                           /\ after.creator_id = before.creator_id
                           /\ after.creator_name = before.creator_name
             ELSE notesFile' = notesFile]_vars

\* Alice's entry stands behind the system's on the seeded note
C22_Witness ==
    /\ notice["s1"] = "posted"
    /\ Len(notesFile) = 1
    /\ notesFile[1].id = "gA"
    /\ notesFile[1].creator_id = "system"
    /\ Len(notesFile[1].entries) = 2
    /\ notesFile[1].entries[2].author_name = current_user["s1"].name

\* ---- C23
\* session s deletes a note in this step
Deletes(s) == Acts(s) /\ notice'[s] = "deleted"

C24_UsersImmutable ==
    [][/\ \A u \in UserIds : usersFile[u] # NoUser => usersFile'[u] = usersFile[u]
       /\ \A s \in Sessions :
             /\ Acts(s) /\ notice'[s] = "registered"
                => usersFile[current_user'[s].id] = NoUser
             /\ Acts(s) /\ notice'[s] \in {"id_in_use", "fill_all_fields"}
                => usersFile' = usersFile
             /\ current_user[s] = NoUser /\ current_user'[s] # NoUser
                => \/ notice'[s] = "registered"
                   \/ current_user'[s] = usersFile[current_user'[s].id]]_vars

\* ---- C25
\* session s picks another note in the selectbox in this step
SelectsByHand(s) ==
    /\ pc[s] = "run" /\ Acts(s)
    /\ selected_note_id'[s] # selected_note_id[s]
    /\ selected_note_id'[s] # NoneVal

\* session s logs out in this step
LogsOut(s) == current_user[s] # NoUser /\ current_user'[s] = NoUser

\* C25: whenever a session holds a recommendation, the recommended note is
\* the selected one; selecting another note by hand, starting a chat,
\* deleting the note and logging out each leave no recommendation.
C25_RecommendationIsSelection ==
    /\ [](\A s \in Sessions :
             recommended_note_id[s] # NoneVal
             => selected_note_id[s] = recommended_note_id[s])
    /\ [][\A s \in Sessions :
             SelectsByHand(s) \/ Starts(s) \/ Deletes(s) \/ LogsOut(s)
             => recommended_note_id'[s] = NoneVal]_vars

\* after the AI's recommendation ended the chat, the user picked note "1" by
\* hand and the recommendation is gone
C25_Witness ==
    /\ selected_note_id["s1"] = "1"
    /\ recommended_note_id["s1"] = NoneVal
    /\ ~chat_started["s1"]
    /\ Len(chat_messages["s1"]) >= 2
    /\ chat_messages["s1"][Len(chat_messages["s1"])].role = "user"
    /\ main_menu["s1"] = NoteMenu
    /\ notice["s1"] = "none" /\ panel["s1"] = "pending"

\* ---- C26
\* session s cancels the chat in this step
Cancels(s) ==
    /\ pc[s] = "run" /\ Acts(s)
    /\ chat_started[s] /\ ~chat_started'[s]
    /\ current_user'[s] = current_user[s]

\* C26: while the chat is active the transcript is not empty and begins with
\* the assistant's fixed greeting; an utterance the user submits becomes the
\* last turn as typed; the transcript otherwise changes only by one turn
\* added at its end while the chat is active, by a start (which leaves the
\* greeting alone), or by a cancel or a logout (which leave it empty), so
\* the turns since the last start stay in submission order.
C26_TranscriptShape ==
    /\ [](\A s \in Sessions :
             chat_started[s]
             => /\ chat_messages[s] # <<>>
                /\ chat_messages[s][1] =
                      [role |-> "assistant", content |-> <<Txt("greeting")>>])
    /\ [][\A s \in Sessions :
             /\ \A prompt \in Prompts, reply \in ModelReplies :
                   pc[s] = "run" /\ chat_started[s] /\ main_menu[s] = SearchMenu
                   /\ SubmitUtterance(s, prompt, reply)
                   => chat_messages'[s] =
                         Append(chat_messages[s],
                                [role |-> "user", content |-> <<Txt(prompt)>>])
             /\ chat_messages'[s] # chat_messages[s]
                => \/ /\ chat_started[s]
                      /\ Len(chat_messages'[s]) = Len(chat_messages[s]) + 1
                      /\ IsPrefix(chat_messages[s], chat_messages'[s])
                   \/ Starts(s) /\ Len(chat_messages'[s]) = 1
                   \/ /\ Cancels(s) \/ LogsOut(s)
                      /\ chat_messages'[s] = <<>>]_vars

\* two utterances stand in the transcript in the order they were submitted,
\* each followed by the assistant's answer
C26_Witness ==
    /\ chat_started["s1"]
    /\ Len(chat_messages["s1"]) = 5
    /\ chat_messages["s1"][2] = [role |-> "user", content |-> <<Txt("quiet")>>]
    /\ chat_messages["s1"][3].role = "assistant"
    /\ chat_messages["s1"][4] = [role |-> "user", content |-> <<Txt("food")>>]
    /\ chat_messages["s1"][5].role = "assistant"

\* ---- C27
\* the reply session s parses in this step resolves the chat
Resolves(s) == pc[s] = "model" /\ chat_started[s] /\ ~chat_started'[s]

\* C27: the flag _switch_to_note_mode is held only between a resolution and
\* the session's next run; every resolution sets it and nothing else does;
\* the run that starts with the flag sets the main menu to note operations
\* and the mode to note writing and removes the flag as its first step; and
\* since that run starts with the chat ended, and the model is consulted only
\* in an active chat, it cannot end with the flag again.
C27_OneShotSwitch ==
    /\ [](\A s \in Sessions :
             switch_to_note_mode[s]
             => /\ pc[s] = "idle"
                /\ ~chat_started[s]
                /\ recommended_note_id[s] # NoneVal
                /\ selected_note_id[s] = recommended_note_id[s])
    /\ [][\A s \in Sessions :
             /\ Resolves(s) => switch_to_note_mode'[s] /\ EndsRun(s)
             /\ switch_to_note_mode'[s] /\ ~switch_to_note_mode[s] => Resolves(s)
             /\ pc[s] = "idle" /\ Acts(s) /\ switch_to_note_mode[s]
                => /\ main_menu'[s] = NoteMenu
                   /\ mode'[s] = WriteMode
                   /\ ~switch_to_note_mode'[s]
                   /\ ~chat_started'[s]
             /\ pc[s] = "run" /\ pc'[s] = "model" => chat_started[s]]_vars

\* the run after the resolution has switched from the search menu to the
\* recommended note in note-writing mode
C27_Witness ==
    /\ pc["s1"] = "run"
    /\ panel["s1"] = "pending"
    /\ ~switch_to_note_mode["s1"]
    /\ main_menu["s1"] = NoteMenu
    /\ mode["s1"] = WriteMode
    /\ recommended_note_id["s1"] = "1"
    /\ selected_note_id["s1"] = "1"
    /\ chat_messages["s1"] # <<>>

====
